---- MODULE Spec2Model ----
(***************************************************************************)
(* Model of the Bankin konnector (src/index.js): one sync run is the       *)
(* pipeline of start(): authenticate, fetchBanks, fetchAccounts,           *)
(* fetchOperations per account, reconciliator.save, fetchBalances          *)
(* (getBalanceHistory per account under Promise.all), saveBalances.        *)
(* The persistence layer holds three doctypes: bank accounts, bank         *)
(* transactions and balance histories.                                     *)
(***************************************************************************)
EXTENDS Integers, Sequences, FiniteSets, TLC

\* ---------------------------------------------------------------- bounds
MaxRuns == 2
MaxDays == 3
DaysPerYear == 2
FirstYear == 2024

VendorIds == <<"A1", "A2">>
UnknownVendorId == "A9"
WithOperations == {"A1"}
Amounts == {50, 100}

\* The _id of an object that has none yet (getEmptyBalanceHistory sets no _id).
NoId == 0

VARIABLES
    pc,               \* position of start() in its pipeline
    startResult,      \* settlement of the promise returned by start()
    failure,          \* the error thrown inside a fetch of this run, if any
    clock,            \* wall clock, in days
    runs,             \* number of runs started
    nextId,           \* next storage identifier the persistence layer allocates
    bankAccounts,     \* io.cozy.bank.accounts
    bankTransactions, \* io.cozy.bank.operations
    balanceHistories, \* io.cozy.bank.balancehistories
    accounts,         \* start: const accounts
    allOperations,    \* start: let allOperations
    opIdx,            \* start: number of iterations of the for loop completed
    savedAccounts,    \* start: const { accounts: savedAccounts }
    todayAsString,    \* fetchBalances: const todayAsString
    currentYear,      \* fetchBalances: const currentYear
    histories,        \* fetchBalances: the histories resolved so far, by index
    existings,        \* updateOrCreate: the documents found before the writes
    saveIdx,          \* updateOrCreate: index of the next entry to write
    lookupFailed,     \* history variable: the accounts whose lookup failed
    trace,            \* history variable: the steps of the current run
    pre,              \* history variable: the stores when the run started
    prev              \* history variable: the previous run, if it completed

vars == <<pc, startResult, failure, clock, runs, nextId, bankAccounts,
          bankTransactions, balanceHistories, accounts, allOperations, opIdx,
          savedAccounts, todayAsString, currentYear, histories, existings,
          saveIdx, lookupFailed, trace, pre, prev>>

stores == <<bankAccounts, bankTransactions, balanceHistories>>
locals == <<accounts, allOperations, opIdx, savedAccounts, todayAsString,
            currentYear, histories, existings, saveIdx, lookupFailed>>

\* ------------------------------------------------------------- the clock
\* moment().year()
yearOf(t) == FirstYear + (t \div DaysPerYear)

\* moment().format('YYYY-MM-DD'): the year followed by the day within it
formatDate(t) == <<yearOf(t), (t % DaysPerYear) + 1>>

NoDate == <<>>

\* ------------------------------------------------------- the source API
\* Lists of raw accounts the API can return: distinct ids, each with a balance.
RECURSIVE AccountLists(_)
AccountLists(k) ==
    IF k = 0 THEN {<<>>}
    ELSE LET rest == AccountLists(k - 1)
         IN  rest \cup
             UNION {{r \o <<[id |-> VendorIds[k], balance |-> b]>> : b \in Amounts}
                    : r \in rest}

\* formatAccounts: vendorId and number both come from account.id
formatAccounts(raw) ==
    [i \in DOMAIN raw |->
        [vendorId |-> raw[i].id, number |-> raw[i].id, balance |-> raw[i].balance]]

\* Transactions the API can return for one account: none, or (for an account
\* that has any) one whose account.id is the account asked for or another one.
OperationLists(account) ==
    {<<>>} \cup
    {<<[id |-> "T" \o account.vendorId, account |-> [id |-> a]]>>
        : a \in IF account.vendorId \in WithOperations
                THEN {account.vendorId, UnknownVendorId}
                ELSE {}}

\* formatOperations: vendorId from operation.id, vendorAccountId from
\* operation.account.id
formatOperations(raw) ==
    [i \in DOMAIN raw |->
        [vendorId |-> raw[i].id, vendorAccountId |-> raw[i].account.id]]

Range(s) == {s[i] : i \in DOMAIN s}

\* ------------------------------------------------------ the reconciliator
\* BankingReconciliator.save: an incoming account is matched to a stored one
\* by vendorId; a match keeps the stored _id, anything else gets a new one.
isNewAccount(stored, a) == ~\E s \in stored : s.vendorId = a.vendorId

newBefore(stored, fetched, i) ==
    Cardinality({j \in 1..(i - 1) : isNewAccount(stored, fetched[j])})

reconciliateAccounts(stored, fetched, base) ==
    [i \in DOMAIN fetched |->
        [_id      |-> IF isNewAccount(stored, fetched[i])
                      THEN base + newBefore(stored, fetched, i)
                      ELSE (CHOOSE s \in stored : s.vendorId = fetched[i].vendorId)._id,
         vendorId |-> fetched[i].vendorId,
         number   |-> fetched[i].number,
         balance  |-> fetched[i].balance]]

bulkSaveAccounts(stored, saved) ==
    {s \in stored : ~\E a \in Range(saved) : a._id = s._id} \cup Range(saved)

\* A transaction is linked to the saved account with its vendorAccountId; one
\* that references no input account is left out of what is persisted.
isOrphan(op, fetched) == ~\E a \in Range(fetched) : a.vendorId = op.vendorAccountId

linkTransactions(ops, saved) ==
    {[vendorId        |-> op.vendorId,
      vendorAccountId |-> op.vendorAccountId,
      account         |-> (CHOOSE a \in Range(saved) : a.vendorId = op.vendorAccountId)._id]
        : op \in {o \in Range(ops) : ~isOrphan(o, saved)}}

bulkSaveTransactions(stored, linked) ==
    {t \in stored : ~\E l \in linked : l.vendorId = t.vendorId} \cup linked

\* ------------------------------------------------------- balance histories
\* Mutant of getEmptyBalanceHistory: the relationship to the account is not set.
getEmptyBalanceHistoryUnlinked(year, accountId) ==
    [_id      |-> NoId,
     year     |-> year,
     balances |-> <<>>,
     version  |-> 1,
     account  |-> NoId]

\* getEmptyBalanceHistory
getEmptyBalanceHistory(year, accountId) ==
    [_id      |-> NoId,
     year     |-> year,
     balances |-> <<>>,
     version  |-> 1,
     account  |-> accountId]

\* Mutant of getBalanceHistory: the selector leaves the year out.
getBalanceHistoryAnyYear(year, accountId) ==
    LET found == {h \in balanceHistories : h.account = accountId}
    IN  IF found # {} THEN found
        ELSE {[_id |-> NoId, year |-> year, balances |-> <<>>, version |-> 1,
               account |-> accountId]}

\* Mutant of getBalanceHistory: the query never finds the stored document.
getBalanceHistoryNotFound(year, accountId) ==
    {[_id |-> NoId, year |-> year, balances |-> <<>>, version |-> 1,
      account |-> accountId]}

\* getBalanceHistory: the documents the query with selector
\* {year, relationships.account.data._id} and limit 1 can return, or the
\* empty history when it returns none.
getBalanceHistory(year, accountId) ==
    LET found == {h \in balanceHistories : h.year = year /\ h.account = accountId}
    IN  IF found # {} THEN found ELSE {getEmptyBalanceHistory(year, accountId)}

\* Mutant of setBalance: the map is replaced by one holding today's entry only.
setBalanceOnly(history, today, balance) ==
    [history EXCEPT !.balances = [k \in {today} |-> balance]]

\* fetchBalances: history.balances[todayAsString] = account.balance
setBalance(history, today, balance) ==
    [history EXCEPT !.balances =
        [k \in (DOMAIN history.balances) \cup {today} |->
            IF k = today THEN balance ELSE history.balances[k]]]

\* Mutant of matchesExisting: no entry is matched to a stored document.
matchesNothing(entry) == FALSE

\* saveBalances: updateOrCreate(balances, doctype, ['_id']) for one entry: an
\* entry whose _id is that of a document found is written over it, any other
\* entry is created under a new identifier.
matchesExisting(entry) == \E d \in existings : d._id = entry._id

updateOrCreate(entry, newId) ==
    IF matchesExisting(entry)
    THEN {d \in balanceHistories : d._id # entry._id} \cup {entry}
    ELSE balanceHistories \cup {[entry EXCEPT !._id = newId]}

\* ------------------------------------------------------------------ state
NoPrev == [done |-> FALSE, today |-> NoDate, balanceOf |-> <<>>]

Ended == {"idle", "done", "failed", "hung", "exited"}

Init ==
    /\ pc = "idle"
    /\ startResult = "pending"
    /\ failure = "none"
    /\ clock = 0
    /\ runs = 0
    /\ nextId = 1
    /\ bankAccounts = {}
    /\ bankTransactions = {}
    /\ balanceHistories = {}
    /\ accounts = <<>>
    /\ allOperations = <<>>
    /\ opIdx = 0
    /\ savedAccounts = <<>>
    /\ todayAsString = NoDate
    /\ currentYear = 0
    /\ histories = <<>>
    /\ existings = {}
    /\ saveIdx = 0
    /\ lookupFailed = {}
    /\ trace = <<>>
    /\ pre = [accounts |-> {}, transactions |-> {}, histories |-> {}]
    /\ prev = NoPrev

\* The day changes. A run reads the clock in one step only (fetchBalances), so
\* a change of day during a run is the same as one before or after it.
Tick ==
    /\ pc \in Ended
    /\ clock + 1 < MaxDays
    /\ clock' = clock + 1
    /\ UNCHANGED <<pc, startResult, failure, runs, nextId, stores, locals,
                   trace, pre, prev>>

\* BaseKonnector calls start(fields).
Start ==
    /\ pc \in Ended
    /\ runs < MaxRuns
    /\ runs' = runs + 1
    /\ pc' = "authenticate"
    /\ startResult' = "pending"
    /\ failure' = "none"
    /\ accounts' = <<>>
    /\ allOperations' = <<>>
    /\ opIdx' = 0
    /\ savedAccounts' = <<>>
    /\ todayAsString' = NoDate
    /\ currentYear' = 0
    /\ histories' = <<>>
    /\ existings' = {}
    /\ saveIdx' = 0
    /\ lookupFailed' = {}
    /\ trace' = <<>>
    /\ pre' = [accounts |-> bankAccounts, transactions |-> bankTransactions,
               histories |-> balanceHistories]
    /\ prev' = IF pc = "done"
               THEN [done      |-> TRUE,
                     today     |-> todayAsString,
                     balanceOf |-> [i \in DOMAIN savedAccounts |->
                                       <<savedAccounts[i]._id, savedAccounts[i].balance>>]]
               ELSE NoPrev
    /\ UNCHANGED <<clock, nextId, stores>>

\* A fetch whose request fails: the executor passed to new Promise is an async
\* function, so the error thrown in its catch block rejects the executor's own
\* promise, which nobody holds; the promise start() awaits is never settled.
ThrowInExecutor(error) ==
    /\ failure' = error
    /\ pc' = "hung"
    /\ trace' = Append(trace, "throw")
    /\ UNCHANGED <<startResult, clock, runs, nextId, stores, locals, pre, prev>>

\* The rejection nobody handles: the runtime either only warns about it, and the
\* run stays as it is, or ends the process.
UnhandledRejection ==
    /\ pc = "hung"
    /\ pc' = "exited"
    /\ UNCHANGED <<startResult, failure, clock, runs, nextId, stores, locals,
                   trace, pre, prev>>

\* An error thrown by an awaited call that start() does not catch rejects the
\* promise start() returned.
Reject(error) ==
    /\ pc' = "failed"
    /\ startResult' = error

authenticate ==
    /\ pc = "authenticate"
    /\ \/ /\ pc' = "fetchBanks"
          /\ trace' = Append(trace, "authenticate")
          /\ UNCHANGED <<startResult, failure, clock, runs, nextId, stores,
                         locals, pre, prev>>
       \/ ThrowInExecutor("LOGIN_FAILED")

fetchBanks ==
    /\ pc = "fetchBanks"
    /\ \/ /\ pc' = "fetchAccounts"
          /\ trace' = Append(trace, "fetchBanks")
          /\ UNCHANGED <<startResult, failure, clock, runs, nextId, stores,
                         locals, pre, prev>>
       \/ ThrowInExecutor("VENDOR_DOWN")

\* Mutant of fetchAccounts: the accounts are persisted as soon as fetched.
fetchAccountsSaving ==
    /\ pc = "fetchAccounts"
    /\ \/ /\ \E raw \in AccountLists(Len(VendorIds)) :
                /\ accounts' = formatAccounts(raw)
                /\ bankAccounts' = bulkSaveAccounts(bankAccounts,
                      reconciliateAccounts(bankAccounts, formatAccounts(raw), nextId))
          /\ pc' = "fetchOperations"
          /\ trace' = Append(trace, "fetchAccounts")
          /\ UNCHANGED <<startResult, failure, clock, runs, nextId, bankTransactions,
                         balanceHistories, allOperations, opIdx, savedAccounts,
                         todayAsString, currentYear, histories, existings, saveIdx,
                         lookupFailed, pre, prev>>
       \/ ThrowInExecutor("VENDOR_DOWN")

fetchAccounts ==
    /\ pc = "fetchAccounts"
    /\ \/ /\ \E raw \in AccountLists(Len(VendorIds)) :
                accounts' = formatAccounts(raw)
          /\ pc' = "fetchOperations"
          /\ trace' = Append(trace, "fetchAccounts")
          /\ UNCHANGED <<startResult, failure, clock, runs, nextId, stores,
                         allOperations, opIdx, savedAccounts, todayAsString,
                         currentYear, histories, existings, saveIdx, lookupFailed,
                         pre, prev>>
       \/ ThrowInExecutor("VENDOR_DOWN")

\* One iteration of the for loop of start().
fetchOperations ==
    /\ pc = "fetchOperations"
    /\ opIdx < Len(accounts)
    /\ \/ /\ \E raw \in OperationLists(accounts[opIdx + 1]) :
                allOperations' = allOperations \o formatOperations(raw)
          /\ opIdx' = opIdx + 1
          /\ trace' = Append(trace, "fetchOperations")
          /\ UNCHANGED <<pc, startResult, failure, clock, runs, nextId, stores,
                         accounts, savedAccounts, todayAsString, currentYear,
                         histories, existings, saveIdx, lookupFailed,
                         pre, prev>>
       \/ ThrowInExecutor("VENDOR_DOWN")

\* Mutant of operationsFetched: the loop may be left before its last iteration.
operationsFetchedEarly == opIdx <= Len(accounts)

\* The for loop of start() has run for every account.
operationsFetched == opIdx = Len(accounts)

\* reconciliator.save(accounts, allOperations): the accounts and transactions
\* are persisted and the saved accounts returned, or the call throws (with the
\* accounts written or not).
reconciliatorSave ==
    /\ pc = "fetchOperations"
    /\ operationsFetched
    /\ LET saved  == reconciliateAccounts(bankAccounts, accounts, nextId)
           linked == linkTransactions(allOperations, saved)
           fresh  == Cardinality({i \in DOMAIN accounts :
                                     isNewAccount(bankAccounts, accounts[i])})
       IN  \/ /\ bankAccounts' = bulkSaveAccounts(bankAccounts, saved)
              /\ bankTransactions' = bulkSaveTransactions(bankTransactions, linked)
              /\ nextId' = nextId + fresh
              /\ savedAccounts' = saved
              /\ pc' = "fetchBalances"
              /\ trace' = Append(trace, "reconciliator.save")
              /\ UNCHANGED startResult
           \/ /\ \/ /\ bankAccounts' = bulkSaveAccounts(bankAccounts, saved)
                    /\ nextId' = nextId + fresh
                 \/ UNCHANGED <<bankAccounts, nextId>>
              /\ Reject("RECONCILIATOR_ERROR")
              /\ trace' = Append(trace, "reconciliator.save throws")
              /\ UNCHANGED <<bankTransactions, savedAccounts>>
    /\ UNCHANGED <<failure, clock, runs, balanceHistories, accounts,
                   allOperations, opIdx, todayAsString, currentYear, histories,
                   existings, saveIdx, lookupFailed, pre, prev>>

\* The accounts start() hands to fetchBalances.
balanceAccounts == savedAccounts

\* fetchBalances, up to the first await: the date is read once.
fetchBalances ==
    /\ pc = "fetchBalances"
    /\ todayAsString' = formatDate(clock)
    /\ currentYear' = yearOf(clock)
    /\ histories' = <<>>
    /\ pc' = "getBalanceHistory"
    /\ trace' = Append(trace, "fetchBalances")
    /\ UNCHANGED <<startResult, failure, clock, runs, nextId, stores, accounts,
                   allOperations, opIdx, savedAccounts, existings, saveIdx,
                   lookupFailed, pre, prev>>

\* The callback of accounts.map for account i: the lookup answers, in any order
\* among the accounts, and today's balance is set; or the lookup fails, which
\* rejects Promise.all and with it start().
fetchBalancesOf(i) ==
    /\ pc = "getBalanceHistory"
    /\ i \in DOMAIN balanceAccounts
    /\ i \notin DOMAIN histories
    /\ \/ /\ \E history \in getBalanceHistory(currentYear, balanceAccounts[i]._id) :
                histories' = histories @@
                    (i :> setBalance(history, todayAsString, balanceAccounts[i].balance))
          /\ trace' = Append(trace, "getBalanceHistory")
          /\ UNCHANGED <<pc, startResult, lookupFailed>>
       \/ /\ Reject("LOOKUP_ERROR")
          /\ lookupFailed' = lookupFailed \cup {i}
          /\ trace' = Append(trace, "getBalanceHistory throws")
          /\ UNCHANGED histories
    /\ UNCHANGED <<failure, clock, runs, nextId, stores, accounts, allOperations,
                   opIdx, savedAccounts, todayAsString, currentYear, existings,
                   saveIdx, pre, prev>>

\* Promise.all has every history.
balancesFetched == DOMAIN histories = DOMAIN balanceAccounts

\* saveBalances: updateOrCreate reads the documents of the doctype.
saveBalances ==
    /\ pc = "getBalanceHistory"
    /\ balancesFetched
    /\ \/ /\ existings' = balanceHistories
          /\ saveIdx' = 1
          /\ pc' = "saveBalances"
          /\ trace' = Append(trace, "saveBalances")
          /\ UNCHANGED startResult
       \/ /\ Reject("SAVE_ERROR")
          /\ trace' = Append(trace, "saveBalances throws")
          /\ UNCHANGED <<existings, saveIdx>>
    /\ UNCHANGED <<failure, clock, runs, nextId, stores, accounts, allOperations,
                   opIdx, savedAccounts, todayAsString, currentYear, histories,
                   lookupFailed, pre, prev>>

\* updateOrCreate writes the entries one after the other; a write that fails
\* rejects start() with the earlier writes done.
saveBalance ==
    /\ pc = "saveBalances"
    /\ saveIdx \in DOMAIN histories
    /\ \/ /\ balanceHistories' = updateOrCreate(histories[saveIdx], nextId)
          /\ nextId' = IF matchesExisting(histories[saveIdx]) THEN nextId ELSE nextId + 1
          /\ saveIdx' = saveIdx + 1
          /\ trace' = Append(trace, "updateOrCreate")
          /\ UNCHANGED <<pc, startResult>>
       \/ /\ Reject("SAVE_ERROR")
          /\ trace' = Append(trace, "updateOrCreate throws")
          /\ UNCHANGED <<balanceHistories, nextId, saveIdx>>
    /\ UNCHANGED <<failure, clock, runs, bankAccounts, bankTransactions, accounts,
                   allOperations, opIdx, savedAccounts, todayAsString,
                   currentYear, histories, existings, lookupFailed, pre, prev>>

\* start() returns: its promise is fulfilled, with no value.
finish ==
    /\ pc = "saveBalances"
    /\ saveIdx = Len(histories) + 1
    /\ pc' = "done"
    /\ startResult' = "fulfilled"
    /\ trace' = Append(trace, "return")
    /\ UNCHANGED <<failure, clock, runs, nextId, stores, locals, pre, prev>>

Next ==
    \/ Tick
    \/ Start
    \/ authenticate
    \/ fetchBanks
    \/ fetchAccounts
    \/ fetchOperations
    \/ reconciliatorSave
    \/ fetchBalances
    \/ \E i \in 1..Len(VendorIds) : fetchBalancesOf(i)
    \/ saveBalances
    \/ saveBalance
    \/ finish
    \/ UnhandledRejection

Spec == Init /\ [][Next]_vars

\* --------------------------------------------------------------- helpers
\* The run has got through saveBalances.
Completed == pc = "done"

storesNow == [accounts |-> bankAccounts, transactions |-> bankTransactions,
              histories |-> balanceHistories]

\* The stored balance histories of an account for a year.
historiesOf(docs, year, accountId) ==
    {h \in docs : h.year = year /\ h.account = accountId}

hasBalance(h, key, balance) ==
    key \in DOMAIN h.balances /\ h.balances[key] = balance

occurred(step) == \E i \in DOMAIN trace : trace[i] = step

countBefore(step, i) == Cardinality({j \in 1..(i - 1) : trace[j] = step})

\* ------------------------------------------------------------------ claims

\* C1: after a completed run, for every account of the run the stored balance
\* history of (current year, account) has balances[today] equal to the
\* account's balance, and every document stored before the run is still there
\* under its identifier, with every key other than today's kept at its value
\* and no key added but today's.
C1_OnlyTodayWritten ==
    Completed =>
        /\ \A i \in DOMAIN savedAccounts :
              \E h \in historiesOf(balanceHistories, currentYear, savedAccounts[i]._id) :
                  hasBalance(h, todayAsString, savedAccounts[i].balance)
        /\ \A d \in pre.histories :
              \E h \in balanceHistories :
                  /\ h._id = d._id
                  /\ h.year = d.year
                  /\ h.account = d.account
                  /\ \A k \in DOMAIN d.balances :
                        k # todayAsString => hasBalance(h, k, d.balances[k])
                  /\ DOMAIN h.balances \subseteq DOMAIN d.balances \cup {todayAsString}

\* C1 witness: a completed run on an account whose document of the year held
\* another day's balance, different from today's, and none for today.
C1_Witness ==
    /\ Completed
    /\ \E i \in DOMAIN savedAccounts :
          \E d \in historiesOf(pre.histories, currentYear, savedAccounts[i]._id) :
              /\ todayAsString \notin DOMAIN d.balances
              /\ \E k \in DOMAIN d.balances : d.balances[k] # savedAccounts[i].balance

\* C2: a completed run that follows a completed run of the same day on the
\* same accounts with the same balances leaves the stored balance histories
\* exactly as the first run left them.
C2_SecondRunChangesNothing ==
    ( /\ Completed
      /\ prev.done
      /\ prev.today = todayAsString
      /\ Range(prev.balanceOf) =
            {<<savedAccounts[i]._id, savedAccounts[i].balance>> : i \in DOMAIN savedAccounts} )
    => balanceHistories = pre.histories

\* C2 witness: such a second run on at least one account, the first of the two
\* having started with no document for it.
C2_Witness ==
    /\ Completed
    /\ prev.done
    /\ prev.today = todayAsString
    /\ savedAccounts # <<>>
    /\ Range(prev.balanceOf) =
          {<<savedAccounts[i]._id, savedAccounts[i].balance>> : i \in DOMAIN savedAccounts}
    /\ Cardinality(balanceHistories) = Len(savedAccounts)

\* C3: once a run has read the date, every document stored before the run for
\* another year is stored unchanged, every document the run holds or has added
\* or changed is of the current year.
C3_YearIsolation ==
    todayAsString # NoDate =>
        /\ \A d \in pre.histories : d.year # currentYear => d \in balanceHistories
        /\ \A h \in balanceHistories \ pre.histories : h.year = currentYear
        /\ \A i \in DOMAIN histories : histories[i].year = currentYear

\* C3 witness: a completed run in the year after the one an account of the run
\* already has a document for.
C3_Witness ==
    /\ Completed
    /\ \E i \in DOMAIN savedAccounts :
          /\ historiesOf(pre.histories, currentYear - 1, savedAccounts[i]._id) # {}
          /\ historiesOf(pre.histories, currentYear, savedAccounts[i]._id) = {}
          /\ historiesOf(balanceHistories, currentYear, savedAccounts[i]._id) # {}

\* C4: the store never holds two balance histories for one (account, year),
\* and a completed run on an account that had a document for the current year
\* leaves today's balance in the document with that identifier.
C4_OneDocumentPerAccountYear ==
    /\ \A h1, h2 \in balanceHistories :
          (h1.account = h2.account /\ h1.year = h2.year) => h1 = h2
    /\ Completed =>
          \A i \in DOMAIN savedAccounts :
              \A d \in historiesOf(pre.histories, currentYear, savedAccounts[i]._id) :
                  \E h \in balanceHistories :
                      /\ h._id = d._id
                      /\ h.account = d.account
                      /\ h.year = d.year
                      /\ hasBalance(h, todayAsString, savedAccounts[i].balance)

\* C4 witness: a completed run on an account that had a document for the year
\* holding another balance for today.
C4_Witness ==
    /\ Completed
    /\ \E i \in DOMAIN savedAccounts :
          \E d \in historiesOf(pre.histories, currentYear, savedAccounts[i]._id) :
              /\ todayAsString \in DOMAIN d.balances
              /\ d.balances[todayAsString] # savedAccounts[i].balance

\* C8: a completed run on an account that had no document for the current year
\* leaves exactly one for it, under an identifier no document had, of the
\* current year, version 1, referencing the account, with today's balance as
\* its only entry.
C8_CreatedWhenAbsent ==
    Completed =>
        \A i \in DOMAIN savedAccounts :
            historiesOf(pre.histories, currentYear, savedAccounts[i]._id) = {} =>
                /\ Cardinality(historiesOf(balanceHistories, currentYear,
                                           savedAccounts[i]._id)) = 1
                /\ \A h \in historiesOf(balanceHistories, currentYear, savedAccounts[i]._id) :
                      /\ h._id # NoId
                      /\ h._id \notin {d._id : d \in pre.histories}
                      /\ h.year = currentYear
                      /\ h.year = todayAsString[1]
                      /\ h.version = 1
                      /\ h.account = savedAccounts[i]._id
                      /\ h.account \in {a._id : a \in bankAccounts}
                      /\ DOMAIN h.balances = {todayAsString}
                      /\ h.balances[todayAsString] = savedAccounts[i].balance

\* C8 witness: a completed run on two accounts, neither with a document for the
\* current year before it.
C8_Witness ==
    /\ Completed
    /\ Len(savedAccounts) = 2
    /\ \A i \in DOMAIN savedAccounts :
          historiesOf(pre.histories, currentYear, savedAccounts[i]._id) = {}

\* C7: in a run, every balance history lookup and write comes after
\* reconciliator.save has returned, which is called only after the operations
\* of every account were fetched; the balance histories are as before the run
\* until then; and the accounts the balances are fetched for are the accounts
\* reconciliator.save returned, one per fetched account, each persisted under
\* its storage identifier.
C7_PipelineOrder ==
    /\ \A i \in DOMAIN trace :
          trace[i] \in {"fetchBalances", "getBalanceHistory", "getBalanceHistory throws",
                        "saveBalances", "saveBalances throws", "updateOrCreate",
                        "updateOrCreate throws"}
              => \E j \in 1..(i - 1) : trace[j] = "reconciliator.save"
    /\ \A i \in DOMAIN trace :
          trace[i] \in {"reconciliator.save", "reconciliator.save throws"}
              => countBefore("fetchOperations", i) = Len(accounts)
    /\ ~occurred("reconciliator.save") =>
          /\ balanceHistories = pre.histories
          /\ histories = <<>>
    /\ occurred("fetchBalances") =>
          /\ balanceAccounts = savedAccounts
          /\ Len(balanceAccounts) = Len(accounts)
          /\ \A i \in DOMAIN balanceAccounts :
                /\ balanceAccounts[i].vendorId = accounts[i].vendorId
                /\ balanceAccounts[i]._id # NoId
                /\ balanceAccounts[i] \in bankAccounts
          /\ \A i \in DOMAIN histories : histories[i].account = balanceAccounts[i]._id

\* C7 witness: a completed run on two accounts with an operation fetched.
C7_Witness ==
    /\ Completed
    /\ Len(accounts) = 2
    /\ allOperations # <<>>
    /\ balanceHistories # pre.histories

\* C10: in a run in which authentication or a fetch has failed, the stored
\* accounts, transactions and balance histories are those of before the run.
C10_FailedFetchWritesNothing ==
    failure # "none" => storesNow = pre

\* C10 witness: the fetch of operations fails for the second account of a run
\* that started with documents stored.
C10_Witness ==
    /\ failure = "VENDOR_DOWN"
    /\ opIdx = 1
    /\ allOperations # <<>>
    /\ pre.accounts # {}
    /\ pre.histories # {}

\* C5 (as claimed): a run in which authentication or a fetch has failed has
\* ended with that failure as the error start() is rejected with.
C5_FailureSurfaced ==
    failure # "none" => (pc = "failed" /\ startResult = failure)

\* C6 (as claimed): when a run has ended with the lookup of an account failed,
\* every other account of the run has today's balance in its stored document.
C6_OtherAccountsSaved ==
    (pc \in Ended /\ lookupFailed # {}) =>
        \A j \in (DOMAIN savedAccounts) \ lookupFailed :
            \E h \in historiesOf(balanceHistories, currentYear, savedAccounts[j]._id) :
                hasBalance(h, todayAsString, savedAccounts[j].balance)

\* What a run reports as skipped: start() keeps only the accounts of what
\* reconciliator.save returns, and returns no value.
skippedRecords == {}

\* C9 (as claimed): once reconciliator.save was called with a transaction whose
\* vendorAccountId is the vendorId of no account of the run, the transaction is
\* among the records the run reports, it is not persisted, and the run goes on
\* to the balances.
C9_OrphanReported ==
    \A i \in DOMAIN allOperations :
        ( /\ isOrphan(allOperations[i], accounts)
          /\ (occurred("reconciliator.save") \/ occurred("reconciliator.save throws")) )
        => /\ allOperations[i] \in skippedRecords
           /\ \A t \in bankTransactions \ pre.transactions :
                 t.vendorId # allOperations[i].vendorId
           /\ occurred("fetchBalances") \/ pc = "fetchBalances"

====
